---- MODULE Spec2Model ----
(***************************************************************************)
(* The elevator simulation of src/elevator.py and src/simulation.py        *)
(* (Python 2: xrange, sets.Set, and "/" on two ints is floor division).    *)
(*                                                                         *)
(* One tick of Simulation.run is three steps, in the order of the loop     *)
(* body: generate_new_requests, Elevator.action, Simulation.update.        *)
(* Person objects live in a heap (people, indexed by creation order); the  *)
(* pools hold references (indices), as the Python lists do.                *)
(***************************************************************************)
EXTENDS Integers, Sequences, FiniteSets, TLC

\* Bounds of the model.
MaxFloors == 3
MaxTicks == 7
MaxNewPeople == 2
MaxInterval == 1
MaxPeople == 2

VARIABLES
    nfloors,              \* Simulation.nfloors (= Elevator.nfloors)
    max_new_people,       \* Simulation.max_new_people
    intervals,            \* Simulation.intervals: floor -> countdown
    waiting_people,       \* Simulation.waiting_people: floor -> list of Person
    elevator_people,      \* Simulation.elevator_people: floor -> list of Person
    elevator,             \* the Elevator object
    people,               \* heap of Person objects, in creation order
    floor_wait_times,     \* Stats.floor_wait_times
    elevator_wait_times,  \* Stats.elevator_wait_times
    floors,               \* Stats.floors
    departed,             \* the Persons handed to Stats.update_wait, in order
    requests,             \* the list last handed to Elevator.new_requests
    move,                 \* the value last returned by Elevator.action
    t,                    \* ticks completed by Simulation.run
    pc                    \* position in Simulation.run

vars == <<nfloors, max_new_people, intervals, waiting_people, elevator_people,
          elevator, people, floor_wait_times, elevator_wait_times, floors,
          departed, requests, move, t, pc>>

Actions == [up |-> 1, down |-> -1, open |-> 0]

Range(s) == {s[i] : i \in 1..Len(s)}

Floors == 0..(nfloors - 1)

\* A countdown too large to expire in the run considered. random.expovariate
\* is unbounded; every draw above MaxInterval is represented by Far, which
\* the decrement leaves in place.
Far == MaxInterval + 1

----------------------------------------------------------------------------
(* Elevator *)

\* Elevator.__init__
ElevatorInit(n) ==
    [next_floors |-> <<>>, already_activated |-> {}, nfloors |-> n,
     current_floor |-> 1]

\* new_requests without the test of line 29.
RECURSIVE new_requests_unchecked(_, _)
new_requests_unchecked(e, reqs) ==
    IF reqs = <<>> THEN e
    ELSE new_requests_unchecked(
             [e EXCEPT !.next_floors = Append(@, Head(reqs)),
                       !.already_activated = @ \cup {Head(reqs)}],
             Tail(reqs))

\* new_requests without line 31: the floor is queued and not marked.
RECURSIVE new_requests_unmarked(_, _)
new_requests_unmarked(e, reqs) ==
    IF reqs = <<>> THEN e
    ELSE LET floor == Head(reqs)
             e1 == IF floor \notin e.already_activated
                   THEN [e EXCEPT !.next_floors = Append(@, floor)]
                   ELSE e
         IN  new_requests_unmarked(e1, Tail(reqs))

\* Elevator.new_requests: the loop over the list `reqs`, first to last.
RECURSIVE new_requests(_, _)
new_requests(e, reqs) ==
    IF reqs = <<>> THEN e
    ELSE LET floor == Head(reqs)
             e1 == IF floor \notin e.already_activated
                   THEN [e EXCEPT !.next_floors = Append(@, floor),
                                  !.already_activated = @ \cup {floor}]
                   ELSE e
         IN  new_requests(e1, Tail(reqs))

\* deque.remove(x): drops the first occurrence of x.
RECURSIVE remove(_, _)
remove(q, x) ==
    IF q = <<>> THEN <<>>
    ELSE IF Head(q) = x THEN Tail(q)
    ELSE <<Head(q)>> \o remove(Tail(q), x)

\* idle_move with <= for <.
idle_move_le(e) ==
    IF e.current_floor <= (e.nfloors \div 2) THEN Actions.up ELSE Actions.down

\* idle_move with true division for floor division.
idle_move_true_division(e) ==
    IF 2 * e.current_floor < e.nfloors THEN Actions.up ELSE Actions.down

\* Line 41: the move of an elevator with nothing to do. Python 2 divides
\* two ints by floor division.
idle_move(e) ==
    IF e.current_floor < (e.nfloors \div 2) THEN Actions.up ELSE Actions.down

\* head_move towards the floor that is last on the queue.
head_move_newest(e) ==
    IF e.current_floor < e.next_floors[Len(e.next_floors)]
    THEN Actions.up ELSE Actions.down

\* Line 47: the move towards the floor that is first on the queue.
head_move(e) ==
    IF e.current_floor < e.next_floors[1] THEN Actions.up ELSE Actions.down

\* serve without line 43: the floor stays on the queue.
serve_keeps_queue(e) ==
    [e EXCEPT !.already_activated = @ \ {e.current_floor}]

\* Lines 43-44: the current floor leaves the queue and the activated set.
serve(e) ==
    [e EXCEPT !.next_floors = remove(@, e.current_floor),
              !.already_activated = @ \ {e.current_floor}]

\* action with the tests of lines 42 and 47 merged: the doors open only at
\* the floor that is first on the queue.
action_head_only(e) ==
    LET r == IF Len(e.next_floors) = 0
             THEN [e |-> e, move |-> idle_move(e)]
             ELSE IF e.current_floor = e.next_floors[1]
             THEN [e |-> serve(e), move |-> Actions.open]
             ELSE [e |-> e, move |-> head_move(e)]
    IN  [e |-> [r.e EXCEPT !.current_floor = @ + r.move], move |-> r.move]

\* Elevator.action: the elevator after the call and the move returned.
action(e) ==
    LET r == IF Len(e.next_floors) = 0
             THEN [e |-> e, move |-> idle_move(e)]
             ELSE IF e.current_floor \in Range(e.next_floors)
             THEN [e |-> serve(e), move |-> Actions.open]
             ELSE [e |-> e, move |-> head_move(e)]
    IN  [e |-> [r.e EXCEPT !.current_floor = @ + r.move], move |-> r.move]

----------------------------------------------------------------------------
(* Person *)

\* DesiredFloors without the loop of line 165: whatever sample() returns.
DesiredFloors_any(floor) == Floors

\* Person.__init__: the floors the rejection loop can end on. Every floor has
\* a positive weight, so every floor other than `floor` can be drawn.
DesiredFloors(floor) == Floors \ {floor}

\* Person with floor_wait_time counted from 1.
Person_counts_from_one(floor, desired) ==
    [desired_floor |-> desired, floor_wait_time |-> 1, elevator_wait_time |-> 0,
     origin |-> floor, born |-> t + 1]

\* Person.__init__ (origin and born are bookkeeping of the model: the floor
\* the Person was created on and the tick of its creation, counted from 1).
Person(floor, desired) ==
    [desired_floor |-> desired, floor_wait_time |-> 0, elevator_wait_time |-> 0,
     origin |-> floor, born |-> t + 1]

\* wait with the two counters exchanged.
wait_swapped(p, in_elevator, k) ==
    IF in_elevator
    THEN [p EXCEPT !.floor_wait_time = @ + k]
    ELSE [p EXCEPT !.elevator_wait_time = @ + k]

\* wait without the else: a Person in the elevator counts both.
wait_both(p, in_elevator, k) ==
    IF in_elevator
    THEN [p EXCEPT !.elevator_wait_time = @ + k, !.floor_wait_time = @ + k]
    ELSE [p EXCEPT !.floor_wait_time = @ + k]

\* Person.wait, applied k times.
wait(p, in_elevator, k) ==
    IF in_elevator
    THEN [p EXCEPT !.elevator_wait_time = @ + k]
    ELSE [p EXCEPT !.floor_wait_time = @ + k]

----------------------------------------------------------------------------
(* Simulation.generate_new_requests *)

Pending(iv) == Cardinality({f \in DOMAIN iv : iv[f] # Far})

\* Persons that may still be created without exceeding MaxPeople, every
\* floor with a running countdown keeping one place for itself.
Room(s) == MaxPeople - Len(s.people) - Pending(s.intervals)

Min(a, b) == IF a < b THEN a ELSE b

\* The batches a floor can create: 1..max_new_people Persons, each with the
\* desired floor its constructor drew.
Batches(s, floor) ==
    UNION {[1..k -> DesiredFloors(floor)] :
              k \in 1..Min(max_new_people, 1 + Room(s))}

\* Redraws without the + 1 of line 53: the countdown may be redrawn as 0.
Redraws_from_zero(s, floor, batch) ==
    {Far} \cup (IF Room(s) + 1 - Len(batch) >= 1 THEN 0..MaxInterval ELSE {})

\* The countdowns a floor can redraw: int(expovariate) + 1.
Redraws(s, floor, batch) ==
    {Far} \cup (IF Room(s) + 1 - Len(batch) >= 1 THEN 1..MaxInterval ELSE {})

\* Emit without line 50: the floor is not put among the requests.
Emit_unrequested(s, floor, batch, next) ==
    LET n == Len(s.people)
    IN  [s EXCEPT
           !.people = @ \o [j \in 1..Len(batch) |-> Person(floor, batch[j])],
           !.waiting_people[floor] = @ \o [j \in 1..Len(batch) |-> n + j],
           !.intervals[floor] = next]

\* Lines 46-53: the branch of a floor whose countdown is 0.
Emit(s, floor, batch, next) ==
    LET n == Len(s.people)
    IN  [s EXCEPT
           !.people = @ \o [j \in 1..Len(batch) |-> Person(floor, batch[j])],
           !.waiting_people[floor] = @ \o [j \in 1..Len(batch) |-> n + j],
           !.requests = Append(@, floor),
           !.intervals[floor] = next]

\* Lines 55-56: the branch of a floor whose countdown is still running.
Decrement(c) == IF c = Far THEN Far ELSE c - 1

\* The loop over the floors, from `floor` on: every outcome the draws allow.
RECURSIVE generate_from(_, _)
generate_from(floor, s) ==
    IF floor >= nfloors THEN {s}
    ELSE IF s.intervals[floor] = 0
    THEN UNION {UNION {generate_from(floor + 1, Emit(s, floor, batch, next)) :
                          next \in Redraws(s, floor, batch)} :
                   batch \in Batches(s, floor)}
    ELSE generate_from(floor + 1,
                       [s EXCEPT !.intervals[floor] = Decrement(@)])

\* Simulation.generate_new_requests
generate_new_requests ==
    /\ pc = "generate"
    /\ t < MaxTicks
    /\ \E s \in generate_from(0, [intervals |-> intervals,
                                   waiting_people |-> waiting_people,
                                   people |-> people, requests |-> <<>>]) :
          /\ intervals' = s.intervals
          /\ waiting_people' = s.waiting_people
          /\ people' = s.people
          /\ requests' = s.requests
          /\ elevator' = new_requests(elevator, s.requests)
    /\ pc' = "action"
    /\ UNCHANGED <<nfloors, max_new_people, elevator_people, floor_wait_times,
                   elevator_wait_times, floors, departed, move, t>>

\* Person.__init__ with nfloors = 1: sample() can only return the floor the
\* Person is on, and the while loop of lines 165-167 never ends.
person_init_hangs ==
    /\ pc = "generate"
    /\ t < MaxTicks
    /\ \E floor \in Floors : intervals[floor] = 0 /\ DesiredFloors(floor) = {}
    /\ pc' = "hang"
    /\ UNCHANGED <<nfloors, max_new_people, intervals, waiting_people,
                   elevator_people, elevator, people, floor_wait_times,
                   elevator_wait_times, floors, departed, requests, move, t>>

----------------------------------------------------------------------------
(* Simulation.run, line 31 *)

elevator_action ==
    /\ pc = "action"
    /\ elevator' = action(elevator).e
    /\ move' = action(elevator).move
    /\ pc' = "update"
    /\ UNCHANGED <<nfloors, max_new_people, intervals, waiting_people,
                   elevator_people, people, floor_wait_times,
                   elevator_wait_times, floors, departed, requests, t>>

----------------------------------------------------------------------------
(* Simulation.update *)

\* How often Person i is referenced by the lists of `pool`, from floor f on.
RECURSIVE OccurrencesFrom(_, _, _)
OccurrencesFrom(pool, i, f) ==
    IF f \notin DOMAIN pool THEN 0
    ELSE Len(SelectSeq(pool[f], LAMBDA x : x = i)) + OccurrencesFrom(pool, i, f + 1)

\* How often Person i is referenced by the lists of `pool`.
Occurrences(pool, i) == OccurrencesFrom(pool, i, 0)

\* Lines 81-85: Person.wait for every entry of every pool.
wait_all(heap, riding, waiting) ==
    [i \in 1..Len(heap) |->
        wait(wait(heap[i], TRUE, Occurrences(riding, i)),
             FALSE, Occurrences(waiting, i))]

\* Lines 69-71: the Persons getting off at floor f.
leaving(f) == elevator_people[f]

\* floor_requests without line 75: nobody getting on presses a floor.
floor_requests_none(f) == <<>>

\* Lines 74-76: the floors pressed by the Persons getting on at floor f.
floor_requests(f) ==
    [k \in 1..Len(waiting_people[f]) |-> people[waiting_people[f][k]].desired_floor]

\* boarded without line 71: the riders of floor f stay in its pool.
boarded_keeps_riders(f) ==
    [g \in Floors |->
        elevator_people[g]
        \o SelectSeq(waiting_people[f], LAMBDA i : people[i].desired_floor = g)]

\* Lines 71 and 77: the riding pools after floor f's riders left and its
\* waiting Persons got on.
boarded(f) ==
    [g \in Floors |->
        (IF g = f THEN <<>> ELSE elevator_people[g])
        \o SelectSeq(waiting_people[f], LAMBDA i : people[i].desired_floor = g)]

\* emptied without line 79: the waiting pool keeps the Persons that got on.
emptied_not(f) == waiting_people

\* Line 79: the waiting pools after floor f's Persons got on.
emptied(f) == [waiting_people EXCEPT ![f] = <<>>]

\* transfer without the test of line 67: the Persons of the current floor
\* get off and on whatever the action was.
transfer_always ==
    LET f == elevator.current_floor
    IN  /\ floor_wait_times' = floor_wait_times
               \o [k \in 1..Len(leaving(f)) |-> people[leaving(f)[k]].floor_wait_time]
        /\ elevator_wait_times' = elevator_wait_times
               \o [k \in 1..Len(leaving(f)) |-> people[leaving(f)[k]].elevator_wait_time]
        /\ departed' = departed \o leaving(f)
        /\ elevator_people' = boarded(f)
        /\ requests' = floor_requests(f)
        /\ elevator' = new_requests(elevator, floor_requests(f))
        /\ waiting_people' = emptied(f)

\* Lines 64-79: the pools, the statistics of the Persons getting off and the
\* elevator's queue.
transfer ==
    LET f == elevator.current_floor
    IN  IF move = Actions.open
        THEN /\ floor_wait_times' = floor_wait_times
                    \o [k \in 1..Len(leaving(f)) |-> people[leaving(f)[k]].floor_wait_time]
             /\ elevator_wait_times' = elevator_wait_times
                    \o [k \in 1..Len(leaving(f)) |-> people[leaving(f)[k]].elevator_wait_time]
             /\ departed' = departed \o leaving(f)
             /\ elevator_people' = boarded(f)
             /\ requests' = floor_requests(f)
             /\ elevator' = new_requests(elevator, floor_requests(f))
             /\ waiting_people' = emptied(f)
        ELSE UNCHANGED <<floor_wait_times, elevator_wait_times, departed,
                         elevator_people, requests, elevator, waiting_people>>

\* update_floor recording a floor only when the elevator has changed floor.
update_floor_dedup(trace, current_floor) ==
    IF trace # <<>> /\ trace[Len(trace)] = current_floor
    THEN trace ELSE Append(trace, current_floor)

\* Stats.update_floor
update_floor(trace, current_floor) == Append(trace, current_floor)

\* Simulation.update, and the end of the iteration of run()'s loop.
update ==
    /\ pc = "update"
    /\ floors' = update_floor(floors, elevator.current_floor)
    /\ transfer
    /\ people' = wait_all(people, elevator_people', waiting_people')
    /\ t' = t + 1
    /\ pc' = "generate"
    /\ UNCHANGED <<nfloors, max_new_people, intervals, move>>

\* Simulation.update in a run without end: the pools and the queue change as
\* in update; the floor trace, the tick count and the wait counters, which
\* nothing in the loop reads and which grow without bound, are left out.
update_unbounded ==
    /\ pc = "update"
    /\ transfer
    /\ pc' = "generate"
    /\ UNCHANGED <<nfloors, max_new_people, intervals, move, people, floors, t>>

----------------------------------------------------------------------------
(* Simulation.run, line 33, and Stats.display_stats *)

\* The loop of run() ends after `time` iterations; `time` is any number in
\* 0..MaxTicks, so the loop may end at the head of any iteration.
display_stats ==
    /\ pc = "generate"
    /\ pc' = IF Len(floor_wait_times) = 0 THEN "ZeroDivisionError" ELSE "done"
    /\ UNCHANGED <<nfloors, max_new_people, intervals, waiting_people,
                   elevator_people, elevator, people, floor_wait_times,
                   elevator_wait_times, floors, departed, requests, move, t>>

----------------------------------------------------------------------------
(* Simulation.__init__ and the specifications *)

\* Simulation.__init__ for a building of n \in N floors.
Construct(N) ==
    /\ nfloors \in N
    /\ max_new_people \in 1..MaxNewPeople
    /\ intervals \in [0..(nfloors - 1) -> (0..MaxInterval) \cup {Far}]
    /\ Pending(intervals) <= MaxPeople
    /\ waiting_people = [f \in 0..(nfloors - 1) |-> <<>>]
    /\ elevator_people = [f \in 0..(nfloors - 1) |-> <<>>]
    /\ elevator = ElevatorInit(nfloors)
    /\ people = <<>>
    /\ floor_wait_times = <<>>
    /\ elevator_wait_times = <<>>
    /\ floors = <<>>
    /\ departed = <<>>
    /\ requests = <<>>
    /\ move = Actions.open
    /\ t = 0
    /\ pc = "generate"

Init == Construct(2..MaxFloors)

Next == generate_new_requests \/ elevator_action \/ update \/ display_stats

Spec == Init /\ [][Next]_vars

\* The building of the scenario "five floors, one Person from 3 to 0".
InitScenario == Construct({5})

SpecScenario == InitScenario /\ [][Next]_vars

\* Simulation.__init__ checks none of its arguments: a building of one floor
\* is constructed like any other.
InitUnvalidated == Construct(1..MaxFloors)

NextUnvalidated ==
    generate_new_requests \/ person_init_hangs \/ elevator_action \/ update
    \/ display_stats

SpecUnvalidated == InitUnvalidated /\ [][NextUnvalidated]_vars

\* The loop of run() without an end: every iteration is followed by the next.
NextUnbounded == generate_new_requests \/ elevator_action \/ update_unbounded

SpecUnbounded == Init /\ [][NextUnbounded]_vars /\ WF_vars(NextUnbounded)

----------------------------------------------------------------------------
(* Properties *)

NoDup(q) == \A i, j \in 1..Len(q) : i # j => q[i] # q[j]

IsPrefix(p, q) == Len(p) <= Len(q) /\ SubSeq(q, 1, Len(p)) = p

Pooled(pool, i) == \E f \in DOMAIN pool : i \in Range(pool[f])

\* C1: in every reachable state, between any two steps of a tick, the
\* elevator's request queue holds no floor more than once.
C1_QueueHasNoDuplicates == NoDup(elevator.next_floors)

\* generate_new_requests has just requested a floor that was queued already:
\* somebody created on an earlier tick is still waiting there.
C1_Witness ==
    /\ pc = "action"
    /\ \E f \in Range(requests) :
          /\ f \in Range(elevator.next_floors)
          /\ \E k \in 1..Len(waiting_people[f]) :
                people[waiting_people[f][k]].born <= t

\* C2: with nfloors >= 2 the elevator's current floor is a floor of the
\* building, 0 <= current_floor < nfloors, in every reachable state.
C2_FloorInRange ==
    nfloors >= 2 =>
        /\ elevator.current_floor >= 0
        /\ elevator.current_floor < nfloors

\* In a building of two floors the elevator has just moved up to the top.
C2_Witness ==
    /\ pc = "update"
    /\ nfloors = 2
    /\ move = Actions.up
    /\ elevator.current_floor = nfloors - 1

\* The doors have just opened at floor f.
OpenedAt(f) == pc = "update" /\ move = Actions.open /\ elevator.current_floor = f

Scenario ==
    /\ nfloors = 5
    /\ Len(people) = 1
    /\ people[1].origin = 3
    /\ people[1].desired_floor = 0
    /\ people[1].born = 1

\* The floor trace of the scenario: 1->2->3, doors open at 3, 3->2->1->0,
\* doors open at 0 (a repeated floor is a tick with the doors open).
ScenarioFloors == <<2, 3, 3, 2, 1, 0, 0>>

\* What the scenario says of every tick but the recorded ride: the trace,
\* the Person boarding on the third tick and leaving on the seventh.
ScenarioRun ==
    /\ \A k \in 1..Min(Len(floors), Len(ScenarioFloors)) :
          floors[k] = ScenarioFloors[k]
    /\ t < 3 => waiting_people[3] = <<1>> /\ elevator_people[0] = <<>>
    /\ (t >= 3 /\ t < 7) => waiting_people[3] = <<>> /\ elevator_people[0] = <<1>>
    /\ t < 7 => departed = <<>>
    /\ t >= 7 => departed = <<1>> /\ floor_wait_times = <<2>>

\* C4 as stated: in the scenario the elevator moves 1->2->3, opens at 3, moves
\* 3->2->1->0, opens at 0, and the sample recorded for the Person is
\* floorWaitTime = 2 and elevatorWaitTime = 3.
C4_Original ==
    Scenario => ScenarioRun /\ (t >= 7 => elevator_wait_times = <<3>>)

\* C4 amended: the same trace and floorWaitTime = 2, and the sample's
\* elevatorWaitTime is 4: the tick on which the Person boards counts as a
\* tick in the elevator, as do the three ticks of the way down.
C4_Scenario ==
    Scenario => ScenarioRun /\ (t >= 7 => elevator_wait_times = <<4>>)

\* The scenario has run its seven ticks and the Person has left at floor 0.
C4_Witness ==
    /\ Scenario
    /\ t = 7
    /\ departed = <<1>>
    /\ elevator.current_floor = 0

\* The counters of Person i after a step are those before it plus (dw, de).
Counted(i, dw, de) ==
    /\ people'[i].floor_wait_time = people[i].floor_wait_time + dw
    /\ people'[i].elevator_wait_time = people[i].elevator_wait_time + de

\* C5: the update of a tick adds exactly 1 to floor_wait_time and nothing to
\* elevator_wait_time of every Person left in a waiting pool, exactly 1 to
\* elevator_wait_time and nothing to floor_wait_time of every Person left in
\* a riding pool, and nothing to either counter of a Person that has left
\* (on this tick or before); no step adds to both counters of a Person, and
\* the other steps of a tick change no counter.
C5_OneCounterPerTick ==
    [][\A i \in 1..Len(people) :
          IF pc = "update"
          THEN /\ Pooled(waiting_people', i) => Counted(i, 1, 0)
               /\ Pooled(elevator_people', i) => Counted(i, 0, 1)
               /\ i \in Range(departed') => Counted(i, 0, 0)
               /\ Pooled(waiting_people', i) \/ Pooled(elevator_people', i)
                     \/ i \in Range(departed')
               /\ ~ (/\ people'[i].floor_wait_time > people[i].floor_wait_time
                     /\ people'[i].elevator_wait_time > people[i].elevator_wait_time)
          ELSE Counted(i, 0, 0)]_vars

\* An update has just opened the doors for a Person that waited and rode,
\* while another Person is waiting or riding.
C5_Witness ==
    /\ pc = "generate"
    /\ move = Actions.open
    /\ Len(departed) >= 1
    /\ people[departed[Len(departed)]].floor_wait_time >= 1
    /\ people[departed[Len(departed)]].elevator_wait_time >= 2
    /\ \E i \in 1..Len(people) :
          /\ Pooled(waiting_people, i) \/ Pooled(elevator_people, i)
          /\ people[i].floor_wait_time >= 1

\* C6: in every reachable state every Person created and not yet handed to
\* the statistics is referenced by exactly one entry of the pools: an entry
\* of the waiting pool of the floor it was created on, or an entry of the
\* riding pool of its desired floor.
C6_ExactlyOnePool ==
    \A i \in 1..Len(people) :
        i \notin Range(departed) =>
            /\ Occurrences(waiting_people, i) + Occurrences(elevator_people, i) = 1
            /\ \/ i \in Range(waiting_people[people[i].origin])
               \/ i \in Range(elevator_people[people[i].desired_floor])

\* One Person is riding and another is waiting, after a tick with the doors
\* open.
C6_Witness ==
    /\ move = Actions.open
    /\ \E i, j \in 1..Len(people) :
          /\ Pooled(elevator_people, i)
          /\ Pooled(waiting_people, j)

\* C7: a Person is handed to the statistics only by the update of a tick
\* whose action opened the doors at the Person's desired floor; that update
\* appends the Person's two counters to the samples, takes every Person
\* riding to that floor and leaves it in no pool; no Person is handed over
\* twice.
C7_DepartsOnceAtDesiredFloor ==
    [][/\ IsPrefix(departed, departed')
       /\ NoDup(departed')
       /\ Len(floor_wait_times') = Len(departed')
       /\ Len(elevator_wait_times') = Len(departed')
       /\ IsPrefix(floor_wait_times, floor_wait_times')
       /\ IsPrefix(elevator_wait_times, elevator_wait_times')
       /\ \A k \in (Len(departed) + 1)..Len(departed') :
             /\ pc = "update"
             /\ move = Actions.open
             /\ people[departed'[k]].desired_floor = elevator.current_floor
             /\ ~ Pooled(waiting_people', departed'[k])
             /\ ~ Pooled(elevator_people', departed'[k])
             /\ floor_wait_times'[k] = people[departed'[k]].floor_wait_time
             /\ elevator_wait_times'[k] = people[departed'[k]].elevator_wait_time
       /\ (pc = "update" /\ move = Actions.open) =>
             \A i \in Range(elevator_people[elevator.current_floor]) :
                 i \in Range(departed') /\ i \notin Range(departed)]_vars

\* Two Persons bound for different floors have been handed to the statistics
\* after rides of different lengths.
C7_Witness ==
    /\ Len(departed) = 2
    /\ elevator_wait_times[1] # elevator_wait_times[2]
    /\ people[departed[1]].desired_floor # people[departed[2]].desired_floor

\* The step calls Elevator.new_requests: generate_new_requests does with the
\* floors that created Persons, update with the floors pressed by the Persons
\* that got on. The list is requests' and the elevator after the call elevator'.
Registers ==
    \/ pc = "generate" /\ pc' = "action"
    \/ pc = "update" /\ move = Actions.open

\* C8: whenever new_requests is called, calling it a second time with the same
\* list changes neither the queue, nor the activated set, nor the current
\* floor; and the call itself keeps the queue it found as a prefix of the new
\* queue, appending only requested floors that were not activated, and leaves
\* the current floor alone.
C8_RegisterIdempotent ==
    [][Registers =>
          /\ new_requests(elevator', requests') = elevator'
          /\ elevator'.current_floor = elevator.current_floor
          /\ IsPrefix(elevator.next_floors, elevator'.next_floors)
          /\ \A k \in (Len(elevator.next_floors) + 1)..Len(elevator'.next_floors) :
                elevator'.next_floors[k] \in Range(requests') \ elevator.already_activated
          /\ elevator'.already_activated
                = elevator.already_activated \cup Range(requests')]_vars

\* Two Persons that got on together pressed the same floor, and that floor
\* is on the queue once.
C8_Witness ==
    /\ pc = "generate"
    /\ move = Actions.open
    /\ Len(requests) = 2
    /\ requests[1] = requests[2]
    /\ Len(elevator.next_floors) = 1

\* The floor the elevator was on before the move it has just made.
FloorBefore == elevator.current_floor - move

\* The elevator has just moved with nothing on its queue (a move changes no
\* queue, so the queue was empty when the move was chosen).
MovedIdle ==
    /\ pc = "update"
    /\ nfloors >= 2
    /\ elevator.next_floors = <<>>
    /\ move # Actions.open

\* C9 as stated: with an empty queue the action is MoveUp exactly when the
\* current floor is strictly below the exact half nfloors/2, and MoveDown
\* when it is at or above it.
C9_Original ==
    MovedIdle =>
        /\ move = Actions.up <=> 2 * FloorBefore < nfloors
        /\ move = Actions.down <=> 2 * FloorBefore >= nfloors

\* C9 amended: with an empty queue the action is MoveUp exactly when the
\* current floor is strictly below nfloors/2 rounded down, and MoveDown when
\* it is at or above that; with an odd number of floors the elevator on floor
\* (nfloors - 1)/2 moves down.
C9_IdleMove ==
    MovedIdle =>
        /\ move = Actions.up <=> 2 * FloorBefore + 2 <= nfloors
        /\ move = Actions.down <=> 2 * FloorBefore + 2 > nfloors
        /\ (nfloors % 2 = 1 /\ 2 * FloorBefore + 1 = nfloors)
              => move = Actions.down

\* In a building with an odd number of floors the idle elevator has just
\* moved down from floor (nfloors - 1)/2.
C9_Witness ==
    /\ MovedIdle
    /\ nfloors % 2 = 1
    /\ 2 * FloorBefore + 1 = nfloors
    /\ move = Actions.down

\* C10: a simulation of fewer than two floors ends in InvalidConfiguration at
\* construction: no tick runs and the run is at no position but that error.
C10_InvalidConfiguration ==
    nfloors < 2 => pc = "InvalidConfiguration" /\ t = 0

\* C11: a run that ends with no sample recorded ends in a distinguished
\* EmptySampleSet outcome; display_stats never divides by the sample count 0.
C11_EmptySampleSetReported ==
    /\ pc # "ZeroDivisionError"
    /\ (pc \notin {"generate", "action", "update"} /\ Len(floor_wait_times) = 0)
          => pc = "EmptySampleSet"

\* C12: with nfloors >= 2 the desired floor of every Person created is a floor
\* of the building other than the floor the Person was created on; and the
\* floors pressed by the Persons getting on at a floor never include that
\* floor.
C12_DesiredFloorIsAnotherFloor ==
    nfloors >= 2 =>
        /\ \A i \in 1..Len(people) :
              /\ people[i].desired_floor \in Floors
              /\ people[i].desired_floor # people[i].origin
        /\ (pc = "generate" /\ t > 0 /\ move = Actions.open)
              => elevator.current_floor \notin Range(requests)

\* Persons have just got on at a floor and pressed their floors.
C12_Witness ==
    /\ pc = "generate"
    /\ t > 0
    /\ move = Actions.open
    /\ requests # <<>>
    /\ \E i \in 1..Len(people) :
          /\ people[i].origin = elevator.current_floor
          /\ Pooled(elevator_people, i)

\* The elevator is about to choose its action.
Deciding == pc = "action"

\* C13: when the current floor is on the queue, at its head or not, the
\* action opens the doors: the current floor does not change, exactly that
\* floor leaves the queue and the activated set, and the other floors keep
\* their order.
C13_OpensWhereQueued ==
    [][(Deciding /\ elevator.current_floor \in Range(elevator.next_floors)) =>
          /\ move' = Actions.open
          /\ elevator'.current_floor = elevator.current_floor
          /\ elevator'.next_floors
                = SelectSeq(elevator.next_floors,
                            LAMBDA x : x # elevator.current_floor)
          /\ Len(elevator'.next_floors) = Len(elevator.next_floors) - 1
          /\ elevator'.already_activated
                = elevator.already_activated \ {elevator.current_floor}]_vars

\* The doors have just opened at a floor that was not the head of the queue:
\* the only two Persons got on together, the first bound for the head of the
\* queue and the second for this floor.
C13_Witness ==
    /\ pc = "update"
    /\ move = Actions.open
    /\ Len(people) = 2
    /\ people[1].origin = people[2].origin
    /\ people[1].born = people[2].born
    /\ elevator.next_floors = <<people[1].desired_floor>>
    /\ elevator.current_floor = people[2].desired_floor
    /\ people[1].desired_floor # people[2].desired_floor
    /\ Pooled(elevator_people, 1)
    /\ Pooled(elevator_people, 2)

\* The distance between two floors.
Distance(a, b) == IF a < b THEN b - a ELSE a - b

\* C14: when the queue is not empty and the current floor is not on it, the
\* action moves the elevator one floor towards the head of the queue (up if
\* the current floor is below the head, down otherwise), one floor closer to
\* it, and changes no queue; and the head of the queue stays the head through
\* every step but the action that opens the doors at that floor.
C14_MovesTowardsHead ==
    [][/\ (/\ Deciding
           /\ elevator.next_floors # <<>>
           /\ elevator.current_floor \notin Range(elevator.next_floors))
          => /\ move' = (IF elevator.current_floor < Head(elevator.next_floors)
                         THEN Actions.up ELSE Actions.down)
             /\ elevator'.current_floor = elevator.current_floor + move'
             /\ Distance(elevator'.current_floor, Head(elevator.next_floors))
                   = Distance(elevator.current_floor, Head(elevator.next_floors)) - 1
             /\ elevator'.next_floors = elevator.next_floors
       /\ (/\ elevator.next_floors # <<>>
           /\ ~ (Deciding /\ elevator.current_floor = Head(elevator.next_floors)))
          => /\ elevator'.next_floors # <<>>
             /\ Head(elevator'.next_floors) = Head(elevator.next_floors)]_vars

\* The elevator has just moved towards the head of a queue of two floors,
\* away from the other floor on it.
C14_Witness ==
    /\ pc = "update"
    /\ move # Actions.open
    /\ Len(elevator.next_floors) = 2
    /\ Distance(elevator.current_floor, elevator.next_floors[2])
          > Distance(elevator.current_floor - move, elevator.next_floors[2])

\* The step of generate_new_requests.
Generating == pc = "generate" /\ pc' = "action"

\* Floor f has created Persons in this step.
Emits(f) == Len(waiting_people'[f]) > Len(waiting_people[f])

\* No floor has created Persons on two consecutive ticks.
NoConsecutiveEmissions ==
    \A i, j \in 1..Len(people) :
        people[i].origin = people[j].origin
            => people[j].born # people[i].born + 1

\* C15: every floor's countdown is a non-negative integer; in a tick a floor
\* creates Persons exactly when its countdown is 0, its countdown is then
\* redrawn to 1 or more and the floor is among the requests registered with
\* the elevator in that tick; no floor creates Persons on two consecutive
\* ticks.
C15_EmitsAtZeroCountdown ==
    [][/\ \A f \in Floors : intervals'[f] \in Nat
       /\ NoConsecutiveEmissions'
       /\ Generating =>
             \A f \in Floors :
                /\ Emits(f) <=> intervals[f] = 0
                /\ Emits(f) =>
                      /\ intervals'[f] >= 1
                      /\ f \in Range(requests')
                      /\ f \in Range(elevator'.next_floors)
                      /\ f \in elevator'.already_activated
                /\ ~ Emits(f) =>
                      /\ intervals'[f] <= intervals[f]
                      /\ waiting_people'[f] = waiting_people[f]]_vars

\* A floor has created Persons, redrawn the countdown 1 and created Persons
\* again two ticks later; this second time has just been registered.
C15_Witness ==
    /\ pc = "action"
    /\ \E i, j \in 1..Len(people) :
          /\ people[i].origin = people[j].origin
          /\ people[j].born = people[i].born + 2
          /\ people[j].born = t + 1
          /\ people[j].origin \in Range(requests)
          /\ intervals[people[j].origin] >= 1

\* The pools and the departure records.
Membership == <<waiting_people, elevator_people, departed,
                floor_wait_times, elevator_wait_times>>

\* C16: in a tick whose action is up or down, the elevator's step leaves the
\* queue and the activated set unchanged and the update moves no Person
\* between the pools and records no departure; the riding pools and the
\* departure records change only in the update of a tick whose action is
\* open, and the waiting pools change only there or by the generator
\* appending new Persons.
C16_MovesChangeNoPool ==
    [][/\ (Deciding /\ move' # Actions.open)
             => /\ elevator'.next_floors = elevator.next_floors
                /\ elevator'.already_activated = elevator.already_activated
                /\ Membership' = Membership
       /\ (pc = "update" /\ move # Actions.open)
             => /\ Membership' = Membership
                /\ elevator' = elevator
       /\ ~ (pc = "update" /\ move = Actions.open)
             => /\ elevator_people' = elevator_people
                /\ departed' = departed
                /\ floor_wait_times' = floor_wait_times
                /\ elevator_wait_times' = elevator_wait_times
                /\ \A f \in Floors : IsPrefix(waiting_people[f], waiting_people'[f])
       /\ ~ (pc = "update" /\ move = Actions.open) /\ ~ (pc = "generate")
             => waiting_people' = waiting_people]_vars

\* A tick whose action was a move has ended with a Person waiting at a
\* floor and another Person riding.
C16_Witness ==
    /\ pc = "generate"
    /\ t >= 1
    /\ move # Actions.open
    /\ \E f \in Floors : waiting_people[f] # <<>>
    /\ \E f \in Floors : elevator_people[f] # <<>>

\* Entry k of the floor trace, entry 0 being the floor the elevator starts at.
TraceAt(trace, k) == IF k = 0 THEN ElevatorInit(nfloors).current_floor ELSE trace[k]

\* C17: after t ticks the floor trace has t entries, the entry of a tick
\* being the elevator's floor after the action of that tick; the trace and
\* the two sequences of wait samples only grow at the end and the two
\* sequences of samples have the same length; an entry equals the entry
\* before it (the first entry: floor 1) when the action of its tick is
\* open and differs from it by exactly 1 otherwise.
C17_TraceAndSamplesAppendOnly ==
    [][/\ Len(floors') = t'
       /\ Len(floor_wait_times') = Len(elevator_wait_times')
       /\ IsPrefix(floors, floors')
       /\ IsPrefix(floor_wait_times, floor_wait_times')
       /\ IsPrefix(elevator_wait_times, elevator_wait_times')
       /\ IF pc = "update"
          THEN /\ floors' = Append(floors, elevator.current_floor)
               /\ Distance(TraceAt(floors', t'), TraceAt(floors', t' - 1))
                     = (IF move = Actions.open THEN 0 ELSE 1)
          ELSE floors' = floors]_vars

\* The trace has an entry repeated by a tick that opened the doors and
\* entries of ticks that moved, and a departure has been recorded.
C17_Witness ==
    /\ pc = "generate"
    /\ Len(floors) >= 3
    /\ Len(floor_wait_times) >= 1
    /\ \E k \in 1..Len(floors) : TraceAt(floors, k) = TraceAt(floors, k - 1)
    /\ floors[1] # ElevatorInit(nfloors).current_floor

\* Somebody waits at floor f or rides to floor f.
Needed(f) == waiting_people[f] # <<>> \/ elevator_people[f] # <<>>

\* C18: at the end of every tick a floor is on the queue if and only if
\* somebody waits at it or rides to it (this holds at every step but for
\* the floor the doors are open at, until the update of that tick), and the
\* doors never open at a floor where nobody gets on or off.
C18_QueuedIffNeeded ==
    \A f \in Floors :
        IF OpenedAt(f)
        THEN Needed(f) /\ f \notin Range(elevator.next_floors)
        ELSE f \in Range(elevator.next_floors) <=> Needed(f)

\* A tick that opened the doors has ended with one floor queued for a Person
\* waiting at it, another for a Person riding to it and the third, not
\* queued, with nobody waiting or riding.
C18_Witness ==
    /\ pc = "generate"
    /\ t >= 1
    /\ move = Actions.open
    /\ Len(elevator.next_floors) = 2
    /\ \E f, g \in Range(elevator.next_floors) :
          /\ waiting_people[f] # <<>> /\ elevator_people[f] = <<>>
          /\ elevator_people[g] # <<>> /\ waiting_people[g] = <<>>
    /\ \E f \in Floors : f \notin Range(elevator.next_floors) /\ ~ Needed(f)

\* The tick in progress, counted from 1.
Tick == t + 1

\* The ticks Person i has been in the building for when the update of the
\* tick in progress begins.
Age(i) == Tick - people[i].born

\* C19: a Person gets on with floor_wait_time equal to the tick it gets on
\* minus the tick it was created (0 when the doors open at its floor in the
\* tick it was created) and elevator_wait_time 0; floor_wait_time never
\* changes once it has got on; the two counters recorded when it gets off
\* are the Person's own and their sum is the tick it gets off minus the tick
\* it was created, so that the recorded elevator_wait_time is the tick it
\* gets off minus the tick it got on.
C19_WaitTimesAreTickDifferences ==
    [][/\ \A i \in 1..Len(people) :
             /\ Pooled(waiting_people, i)
                   => /\ people[i].elevator_wait_time = 0
                      /\ people[i].floor_wait_time = Age(i)
             /\ ~ Pooled(waiting_people, i)
                   => people'[i].floor_wait_time = people[i].floor_wait_time
             /\ Pooled(elevator_people, i)
                   => /\ people[i].elevator_wait_time >= 1
                      /\ people[i].floor_wait_time + people[i].elevator_wait_time = Age(i)
             /\ (Pooled(waiting_people, i) /\ Pooled(elevator_people', i))
                   => /\ people'[i].floor_wait_time = Age(i)
                      /\ people'[i].elevator_wait_time = 1
       /\ \A k \in 1..Len(departed') :
             LET i == departed'[k]
             IN  /\ floor_wait_times'[k] = people'[i].floor_wait_time
                 /\ elevator_wait_times'[k] = people'[i].elevator_wait_time
                 /\ k > Len(departed)
                       => /\ Pooled(elevator_people, i)
                          /\ people'[i] = people[i]
                          /\ floor_wait_times'[k] + elevator_wait_times'[k] = Age(i)]_vars

\* Two Persons have got off: one had got on in the tick it was created, the
\* other had waited for the elevator.
C19_Witness ==
    /\ Len(departed) = 2
    /\ \E j, k \in 1..2 :
          /\ floor_wait_times[j] = 0 /\ elevator_wait_times[j] >= 1
          /\ floor_wait_times[k] >= 1 /\ elevator_wait_times[k] >= 1

\* The action of tick k was open: the floor trace did not move (C17).
OpenedInTick(k) == TraceAt(floors, k) = TraceAt(floors, k - 1)

\* The elevator is about to choose its action and opened the doors in the
\* tick before.
DecidingAfterOpen == Deciding /\ t >= 1 /\ move = Actions.open

\* C20 as stated: the elevator never opens the doors in two consecutive
\* ticks.
C20_Original ==
    [][DecidingAfterOpen => move' # Actions.open]_vars

\* C20: the elevator opens the doors in two consecutive ticks only at the
\* same floor and only when that floor has created Persons in the second of
\* the two ticks (and none in the first); nobody gets off in the second
\* tick; and the elevator never opens the doors in three consecutive ticks.
C20_ReopensOnlyForNewArrivals ==
    [][(DecidingAfterOpen /\ move' = Actions.open) =>
          LET f == elevator.current_floor
          IN  /\ f = floors[t]
              /\ \E i \in Range(waiting_people[f]) : people[i].born = Tick
              /\ \A i \in 1..Len(people) :
                    people[i].origin = f => people[i].born # t
              /\ elevator_people[f] = <<>>
              /\ OpenedInTick(t)
              /\ t >= 2 => ~ OpenedInTick(t - 1)]_vars

\* The doors have just opened at the floor they opened at in the tick
\* before, for a Person created in this tick.
C20_Witness ==
    /\ pc = "update"
    /\ t >= 1
    /\ move = Actions.open
    /\ OpenedInTick(t)
    /\ floors[t] = elevator.current_floor
    /\ \E i \in Range(waiting_people[elevator.current_floor]) :
          people[i].born = Tick

====
